---- MODULE Spec2Model ----
(***************************************************************************)
(* A model of pii_manager/api/file.py: the sentence splitter, the result   *)
(* writer and process_file, the dispatcher that drives the engine over     *)
(* the units of one input file.                                            *)
(*                                                                         *)
(* A string is a sequence of one-character strings; a dict is the sequence *)
(* of its <<key, value>> items in insertion order; None is <<>>.           *)
(***************************************************************************)
EXTENDS Integers, Sequences, FiniteSets, TLC

VARIABLES
    doc,      \* the content of the input file
    split,    \* process_file's split argument
    mode,     \* process_file's mode argument
    engine,   \* which engine behaviour PiiManager shows in this run
    pc,       \* position in process_file (or in the consumer of the splitter)
    fin,      \* the input stream: "unopened", "open" or "closed"
    fout,     \* the output stream: "unopened", "open" or "closed"
    rest,     \* what the input stream has not delivered yet
    pieces,   \* sentence_splitter: the list re.split returned
    it,       \* sentence_splitter: the shared iterator's position in pieces
    n,        \* enumerate's counter
    unit,     \* the loop variable (line, sentence) or the block
    result,   \* the engine's result, not yet written
    calls,    \* every engine call made: its text, its index, whether it raised
    writes,   \* the number of calls of write() made
    out,      \* the content of the output file, one item per write
    err,      \* the error that is propagating or was raised
    ret,      \* <<>>, or <<stats>> once process_file has returned
    yielded   \* the units a consumer of sentence_splitter has received

vars == <<doc, split, mode, engine, pc, fin, fout, rest, pieces, it, n, unit,
          result, calls, writes, out, err, ret, yielded>>

---------------------------------------------------------------------------
(* Bounds *)

MaxDocLen == 4
MaxSplitLen == 5

IDEO_STOP == "IDEOGRAPHIC_FULL_STOP"
FULLWIDTH_STOP == "FULLWIDTH_FULL_STOP"

\* The characters of the documents given to sentence_splitter alone, and of
\* the files given to process_file.
Chars == {"a", " ", "\n", ".", IDEO_STOP}
FileChars == {"a", " ", "\n", "."}

RECURSIVE StringsUpTo(_, _)
StringsUpTo(k, cs) ==
    IF k = 0 THEN {<<>>}
    ELSE LET shorter == StringsUpTo(k - 1, cs)
         IN  shorter \cup {Append(s, c) : s \in {t \in shorter : Len(t) = k - 1}, c \in cs}

Splits == {"block", "line", "sentence", "paragraph"}
Modes == {"replace", "extract", "bogus"}
Engines == {"echo", "scan"}

\* What the output file holds before process_file runs.
OldContent == <<[text |-> <<"o", "l", "d">>]>>

---------------------------------------------------------------------------
(* sentence_splitter *)

VERTICAL_TAB == "VERTICAL_TAB"

\* \s, on the characters of the model
IsSpace(c) == c \in {" ", "\t", "\n", "\r", "\f", VERTICAL_TAB}

IsPunct(c) == c \in {".", "!", "?", FULLWIDTH_STOP, IDEO_STOP}

\* The length of the run of whitespace that starts at d[i].
RECURSIVE WsRun(_, _)
WsRun(d, i) ==
    IF i <= Len(d) /\ IsSpace(d[i]) THEN 1 + WsRun(d, i + 1) ELSE 0

\* \s*[\.!\?...]\s+ matched at position s: the position after the match, or 0.
MatchEnd(d, s) ==
    LET p == s + WsRun(d, s)
    IN  IF p <= Len(d) /\ IsPunct(d[p]) /\ WsRun(d, p + 1) >= 1
        THEN p + 1 + WsRun(d, p + 1)
        ELSE 0

\* The leftmost position >= from where the separator matches, or 0.
RECURSIVE FindSep(_, _)
FindSep(d, from) ==
    IF from > Len(d) THEN 0
    ELSE IF MatchEnd(d, from) > 0 THEN from
    ELSE FindSep(d, from + 1)

\* re.split with one capturing group: text, separator, text, ..., text.
RECURSIVE ReSplitFrom(_, _)
ReSplitFrom(d, from) ==
    LET s == FindSep(d, from)
    IN  IF s = 0 THEN <<SubSeq(d, from, Len(d))>>
        ELSE <<SubSeq(d, from, s - 1), SubSeq(d, s, MatchEnd(d, s) - 1)>>
             \o ReSplitFrom(d, MatchEnd(d, s))

re_split(d) == ReSplitFrom(d, 1)

TruthyAlways(sentence) == TRUE

\* if sentence:
Truthy(sentence) == sentence # <<>>

SplitterUnitNoSep(sentence, sep) == sentence

\* yield sentence + sep
SplitterUnit(sentence, sep) == sentence \o sep

\* One next() of the generator: zip_longest draws a sentence and a separator
\* from the same iterator, "" filling a missing separator; pairs whose
\* sentence is empty are passed over.
RECURSIVE GenNext(_, _)
GenNext(ps, i) ==
    IF i > Len(ps) THEN [done |-> TRUE, it |-> i, unit |-> <<>>]
    ELSE LET sentence == ps[i]
             sep == IF i + 1 <= Len(ps) THEN ps[i + 1] ELSE <<>>
         IN  IF Truthy(sentence)
             THEN [done |-> FALSE, it |-> i + 2, unit |-> SplitterUnit(sentence, sep)]
             ELSE GenNext(ps, i + 2)

---------------------------------------------------------------------------
(* A consumer of sentence_splitter alone: list(sentence_splitter(doc)) *)

SplitInit ==
    /\ doc \in StringsUpTo(MaxSplitLen, Chars)
    /\ split = "sentence" /\ mode = "replace" /\ engine = "echo"
    /\ pc = "split_call"
    /\ fin = "unopened" /\ fout = "unopened"
    /\ rest = <<>> /\ pieces = <<>> /\ it = 1 /\ n = 0
    /\ unit = <<>> /\ result = <<>> /\ calls = <<>> /\ writes = 0
    /\ out = OldContent /\ err = "none" /\ ret = <<>> /\ yielded = <<>>

\* The generator's body starts at the first next(): re.split runs.
SplitterStart ==
    /\ pc = "split_call"
    /\ pieces' = re_split(doc)
    /\ it' = 1
    /\ pc' = "split_iter"
    /\ UNCHANGED <<doc, split, mode, engine, fin, fout, rest, n, unit, result,
                   calls, writes, out, err, ret, yielded>>

SplitterYield ==
    /\ pc = "split_iter"
    /\ ~GenNext(pieces, it).done
    /\ yielded' = Append(yielded, GenNext(pieces, it).unit)
    /\ it' = GenNext(pieces, it).it
    /\ UNCHANGED <<doc, split, mode, engine, pc, fin, fout, rest, pieces, n, unit,
                   result, calls, writes, out, err, ret>>

SplitterStop ==
    /\ pc = "split_iter"
    /\ GenNext(pieces, it).done
    /\ it' = GenNext(pieces, it).it
    /\ pc' = "split_done"
    /\ UNCHANGED <<doc, split, mode, engine, fin, fout, rest, pieces, n, unit,
                   result, calls, writes, out, err, ret, yielded>>

SplitNext == SplitterStart \/ SplitterYield \/ SplitterStop

SplitSpec == SplitInit /\ [][SplitNext]_vars

---------------------------------------------------------------------------
(* The engine: PiiManager, constructed once and called once per unit *)

RecognizedModes == {"replace", "extract"}

\* PiiManager's constructor accepts the mode or raises.
ValidMode(m) == m \in RecognizedModes

\* Substitution modes: "echo" returns the text as it is, "scan" masks each "a".
EngineText(kind, text) ==
    IF kind = "echo" THEN text
    ELSE [i \in 1..Len(text) |-> IF text[i] = "a" THEN "#" ELSE text[i]]

RECURSIVE ScanFrom(_, _)
ScanFrom(text, i) ==
    IF i > Len(text) THEN <<>>
    ELSE (IF text[i] = "a"
          THEN <<[name |-> "LETTER_A", value |-> <<"a">>, pos |-> i - 1]>>
          ELSE <<>>) \o ScanFrom(text, i + 1)

\* Extraction mode: "echo" reports exactly one Finding per unit, "scan" one
\* Finding per "a" of the unit.
EngineFindings(kind, text) ==
    IF kind = "echo" THEN <<[name |-> "UNIT", value |-> text, pos |-> 0]>>
    ELSE ScanFrom(text, 1)

\* proc(text): the shape of the result is set by the mode the engine was built with.
EngineResult(kind, m, text) ==
    IF m = "extract" THEN EngineFindings(kind, text) ELSE EngineText(kind, text)

\* proc.stats, as far as this model needs it: the units the engine processed.
Stats == Len(SelectSeq(calls, LAMBDA c : ~c.raised))

---------------------------------------------------------------------------
(* write_extract and write *)

ElemNoIndex(pii, index) ==
    <<<<"name", pii.name>>, <<"value", pii.value>>, <<"pos", pii.pos>>>>

\* elem = {"name": ..., "value": ..., "pos": ...}; if index: elem.update(index)
Elem(pii, index) ==
    LET elem == <<<<"name", pii.name>>, <<"value", pii.value>>, <<"pos", pii.pos>>>>
    IN  IF index # <<>> THEN elem \o index ELSE elem

\* One line of NDJSON per Finding, in the order of the result.
write_extract(res, index) ==
    [k \in 1..Len(res) |-> [record |-> Elem(res[k], index)]]

WriteTextNewline(res) == <<[text |-> Append(res, "\n")]>>

\* out.write(result)
WriteText(res) == <<[text |-> res]>>

\* What one call of write() appends to the output.
write(res, m, index) ==
    IF m = "extract" THEN write_extract(res, index) ELSE WriteText(res)

---------------------------------------------------------------------------
(* process_file                                                            *)
(* print_tasks and the statistics table go to sys.stderr and change        *)
(* nothing of the state below; they are left out.                          *)

ValidSplits == {"block", "line", "sentence"}

CtorModeDefault == "replace"

\* PiiManager(..., mode=mode, ...)
CtorMode == mode

ExitWithLeak(s) == s

\* The end of a with block, reached normally or by an exception: close().
ExitWith(s) == IF s = "open" THEN "closed" ELSE s

IndexFromZero(key, k) == <<<<key, k>>>>

\* {"line": n + 1}, {"sentence": n + 1}
Index(key, k) == <<<<key, k + 1>>>>

\* The index process_file passes with the current unit.
CurIndex == IF split = "block" THEN <<>> ELSE Index(split, n)

\* The position of the first line terminator of s, or 0.
RECURSIVE NewlineAt(_, _)
NewlineAt(s, i) ==
    IF i > Len(s) THEN 0 ELSE IF s[i] = "\n" THEN i ELSE NewlineAt(s, i + 1)

\* next(fin): the line up to and with its terminator, or what is left.
ReadLine(s) ==
    IF NewlineAt(s, 1) = 0 THEN s ELSE SubSeq(s, 1, NewlineAt(s, 1))

Init ==
    /\ doc \in StringsUpTo(MaxDocLen, FileChars)
    /\ split \in Splits /\ mode \in Modes /\ engine \in Engines
    /\ pc = "start"
    /\ fin = "unopened" /\ fout = "unopened"
    /\ rest = <<>> /\ pieces = <<>> /\ it = 1 /\ n = -1
    /\ unit = <<>> /\ result = <<>> /\ calls = <<>> /\ writes = 0
    /\ out = OldContent /\ err = "none" /\ ret = <<>> /\ yielded = <<>>

\* proc = PiiManager(...)
Construct ==
    /\ pc = "start"
    /\ IF ValidMode(CtorMode)
       THEN pc' = "constructed" /\ err' = err
       ELSE pc' = "raised" /\ err' = "config_mode"
    /\ UNCHANGED <<doc, split, mode, engine, fin, fout, rest, pieces, it, n, unit,
                   result, calls, writes, out, ret, yielded>>

\* with openfile(infile, "rt") as fin: whatever openfile resolves the name to
\* (a plain file, a gzip, bz2 or xz stream, sys.stdin), the with block closes it.
OpenIn ==
    /\ pc = "constructed"
    /\ fin' = "open" /\ rest' = doc
    /\ pc' = "in_open"
    /\ UNCHANGED <<doc, split, mode, engine, fout, pieces, it, n, unit, result,
                   calls, writes, out, err, ret, yielded>>

OpenInFails ==
    /\ pc = "constructed"
    /\ err' = "open_in"
    /\ pc' = "raised"
    /\ UNCHANGED <<doc, split, mode, engine, fin, fout, rest, pieces, it, n, unit,
                   result, calls, writes, out, ret, yielded>>

\* with openfile(outfile, "wt") as fout: the file is created or truncated.
OpenOut ==
    /\ pc = "in_open"
    /\ fout' = "open" /\ out' = <<>>
    /\ pc' = "body"
    /\ UNCHANGED <<doc, split, mode, engine, fin, rest, pieces, it, n, unit, result,
                   calls, writes, err, ret, yielded>>

OpenOutFails ==
    /\ pc = "in_open"
    /\ err' = "open_out"
    /\ pc' = "unwind"
    /\ UNCHANGED <<doc, split, mode, engine, fin, fout, rest, pieces, it, n, unit,
                   result, calls, writes, out, ret, yielded>>

ReadBlockSkipsEmpty ==
    /\ pc = "body" /\ split = "block"
    /\ unit' = rest /\ rest' = <<>>
    /\ pc' = IF rest = <<>> THEN "exit" ELSE "engine"
    /\ UNCHANGED <<doc, split, mode, engine, fin, fout, pieces, it, n, result,
                   calls, writes, out, err, ret, yielded>>

\* if split == "block": ... fin.read()
ReadBlock ==
    /\ pc = "body" /\ split = "block"
    /\ unit' = rest /\ rest' = <<>>
    /\ pc' = "engine"
    /\ UNCHANGED <<doc, split, mode, engine, fin, fout, pieces, it, n, result,
                   calls, writes, out, err, ret, yielded>>

\* elif split == "line": for n, line in enumerate(fin):
EnterLines ==
    /\ pc = "body" /\ split = "line"
    /\ pc' = "loop"
    /\ UNCHANGED <<doc, split, mode, engine, fin, fout, rest, pieces, it, n, unit,
                   result, calls, writes, out, err, ret, yielded>>

\* elif split == "sentence": for n, sentence in enumerate(sentence_splitter(fin.read())):
\* (re.split runs at the first next(); nothing happens in between)
EnterSentences ==
    /\ pc = "body" /\ split = "sentence"
    /\ pieces' = re_split(rest) /\ it' = 1 /\ rest' = <<>>
    /\ pc' = "loop"
    /\ UNCHANGED <<doc, split, mode, engine, fin, fout, n, unit, result,
                   calls, writes, out, err, ret, yielded>>

\* else: raise PiiManagerException("invalid split mode: {}", split)
InvalidSplit ==
    /\ pc = "body" /\ split \notin ValidSplits
    /\ err' = "config_split"
    /\ pc' = "unwind"
    /\ UNCHANGED <<doc, split, mode, engine, fin, fout, rest, pieces, it, n, unit,
                   result, calls, writes, out, ret, yielded>>

\* fin.read() or next(fin) raises
ReadFails ==
    /\ \/ pc = "body" /\ split \in {"block", "sentence"}
       \/ pc = "loop" /\ split = "line" /\ rest # <<>>
    /\ err' = "read"
    /\ pc' = "unwind"
    /\ UNCHANGED <<doc, split, mode, engine, fin, fout, rest, pieces, it, n, unit,
                   result, calls, writes, out, ret, yielded>>

NextLine ==
    /\ pc = "loop" /\ split = "line" /\ rest # <<>>
    /\ unit' = ReadLine(rest)
    /\ rest' = SubSeq(rest, Len(ReadLine(rest)) + 1, Len(rest))
    /\ n' = n + 1
    /\ pc' = "engine"
    /\ UNCHANGED <<doc, split, mode, engine, fin, fout, pieces, it, result,
                   calls, writes, out, err, ret, yielded>>

NextSentence ==
    /\ pc = "loop" /\ split = "sentence"
    /\ ~GenNext(pieces, it).done
    /\ unit' = GenNext(pieces, it).unit
    /\ it' = GenNext(pieces, it).it
    /\ n' = n + 1
    /\ pc' = "engine"
    /\ UNCHANGED <<doc, split, mode, engine, fin, fout, rest, pieces, result,
                   calls, writes, out, err, ret, yielded>>

\* The iterator is exhausted: the for loop ends.
LoopEnds ==
    /\ pc = "loop"
    /\ \/ split = "line" /\ rest = <<>>
       \/ split = "sentence" /\ GenNext(pieces, it).done
    /\ pc' = "exit"
    /\ UNCHANGED <<doc, split, mode, engine, fin, fout, rest, pieces, it, n, unit,
                   result, calls, writes, out, err, ret, yielded>>

\* proc(unit)
CallEngine ==
    /\ pc = "engine"
    /\ calls' = Append(calls, [text |-> unit, index |-> CurIndex, raised |-> FALSE])
    /\ result' = EngineResult(engine, mode, unit)
    /\ pc' = "write"
    /\ UNCHANGED <<doc, split, mode, engine, fin, fout, rest, pieces, it, n, unit,
                   writes, out, err, ret, yielded>>

EngineRaisesSwallowed ==
    /\ pc = "engine"
    /\ calls' = Append(calls, [text |-> unit, index |-> CurIndex, raised |-> TRUE])
    /\ err' = "engine"
    /\ pc' = IF split = "block" THEN "exit" ELSE "loop"
    /\ UNCHANGED <<doc, split, mode, engine, fin, fout, rest, pieces, it, n, unit,
                   result, writes, out, ret, yielded>>

\* proc(unit) raises: the exception leaves process_file
EngineRaises ==
    /\ pc = "engine"
    /\ calls' = Append(calls, [text |-> unit, index |-> CurIndex, raised |-> TRUE])
    /\ err' = "engine"
    /\ pc' = "unwind"
    /\ UNCHANGED <<doc, split, mode, engine, fin, fout, rest, pieces, it, n, unit,
                   result, writes, out, ret, yielded>>

\* write(result, mode, index, fout)
Write ==
    /\ pc = "write"
    /\ out' = out \o write(result, mode, CurIndex)
    /\ writes' = writes + 1
    /\ result' = <<>>
    /\ pc' = IF split = "block" THEN "exit" ELSE "loop"
    /\ UNCHANGED <<doc, split, mode, engine, fin, fout, rest, pieces, it, n, unit,
                   calls, err, ret, yielded>>

\* A write on the stream raises: the items before it are in the output.
WriteFails ==
    /\ pc = "write"
    /\ \E k \in 0..(Len(write(result, mode, CurIndex)) - 1) :
           out' = out \o SubSeq(write(result, mode, CurIndex), 1, k)
    /\ writes' = writes + 1
    /\ err' = "write"
    /\ pc' = "unwind"
    /\ UNCHANGED <<doc, split, mode, engine, fin, fout, rest, pieces, it, n, unit,
                   result, calls, ret, yielded>>

\* Both with blocks end normally.
ExitBlocks ==
    /\ pc = "exit"
    /\ fout' = ExitWith(fout) /\ fin' = ExitWith(fin)
    /\ pc' = "after_with"
    /\ UNCHANGED <<doc, split, mode, engine, rest, pieces, it, n, unit, result,
                   calls, writes, out, err, ret, yielded>>

\* An exception leaves the with blocks it was raised in.
ExitBlocksOnError ==
    /\ pc = "unwind"
    /\ fout' = ExitWith(fout) /\ fin' = ExitWith(fin)
    /\ pc' = "raised"
    /\ UNCHANGED <<doc, split, mode, engine, rest, pieces, it, n, unit, result,
                   calls, writes, out, err, ret, yielded>>

\* return proc.stats
Return ==
    /\ pc = "after_with"
    /\ ret' = <<Stats>>
    /\ pc' = "returned"
    /\ UNCHANGED <<doc, split, mode, engine, fin, fout, rest, pieces, it, n, unit,
                   result, calls, writes, out, err, yielded>>

Next ==
    \/ Construct \/ OpenIn \/ OpenInFails \/ OpenOut \/ OpenOutFails
    \/ ReadBlock \/ EnterLines \/ EnterSentences \/ InvalidSplit \/ ReadFails
    \/ NextLine \/ NextSentence \/ LoopEnds
    \/ CallEngine \/ EngineRaises \/ Write \/ WriteFails
    \/ ExitBlocks \/ ExitBlocksOnError \/ Return

Spec == Init /\ [][Next]_vars

---------------------------------------------------------------------------
(* What the claims speak of *)

RECURSIVE Concat(_)
Concat(ss) == IF ss = <<>> THEN <<>> ELSE Head(ss) \o Concat(Tail(ss))

\* list(sentence_splitter(d))
RECURSIVE SentencesFrom(_, _)
SentencesFrom(ps, i) ==
    IF GenNext(ps, i).done THEN <<>>
    ELSE <<GenNext(ps, i).unit>> \o SentencesFrom(ps, GenNext(ps, i).it)

sentence_splitter(d) == SentencesFrom(re_split(d), 1)

\* list(fin), for a stream that holds s
RECURSIVE AllLines(_)
AllLines(s) ==
    IF s = <<>> THEN <<>>
    ELSE <<ReadLine(s)>> \o AllLines(SubSeq(s, Len(ReadLine(s)) + 1, Len(s)))

\* The units of document d under granularity sp, in order.
Units(d, sp) ==
    IF sp = "block" THEN <<d>>
    ELSE IF sp = "line" THEN AllLines(d)
    ELSE sentence_splitter(d)

\* The Index Descriptor of the k-th unit (1-based); none for a block.
UnitIndex(sp, k) == IF sp = "block" THEN <<>> ELSE <<<<sp, k>>>>

\* The output after the first j units were processed and written.
RECURSIVE ExpectedOut(_)
ExpectedOut(j) ==
    IF j = 0 THEN <<>>
    ELSE ExpectedOut(j - 1)
         \o write(EngineResult(engine, mode, Units(doc, split)[j]), mode, UnitIndex(split, j))

IsPrefix(a, b) == Len(a) <= Len(b) /\ SubSeq(b, 1, Len(a)) = a

\* The text of the output file.
OutText == Concat([k \in 1..Len(out) |-> out[k].text])

\* No separator: no terminal punctuation followed by whitespace.
NoSeparator(d) == ~\E i \in 1..(Len(d) - 1) : IsPunct(d[i]) /\ IsSpace(d[i + 1])

\* A line: not empty, no line terminator but, possibly, as its last character.
IsLine(s) == s # <<>> /\ \A i \in 1..(Len(s) - 1) : s[i] # "\n"

\* us is d cut into its physical lines.
IsLineSplit(us, d) ==
    /\ Concat(us) = d
    /\ \A k \in 1..Len(us) : IsLine(us[k])
    /\ \A k \in 1..(Len(us) - 1) : us[k][Len(us[k])] = "\n"

OneLine(d) == IsLine(d)

\* One sentence: a text that is not empty, followed by at most one separator
\* that ends the document.
OneSentence(d) ==
    /\ d # <<>>
    /\ \/ FindSep(d, 1) = 0
       \/ FindSep(d, 1) > 1 /\ MatchEnd(d, FindSep(d, 1)) = Len(d) + 1

---------------------------------------------------------------------------
(* The claims *)

\* C1: the units sentence_splitter yields for a document, concatenated in
\* order, are the document (also when it begins with a separator or holds
\* two adjacent separators).
RoundTrip == pc = "split_done" => Concat(yielded) = doc

\* C2: when the invalid split is raised, neither stream has been opened and
\* the output file has not been truncated.
InvalidSplitBeforeOpen ==
    err = "config_split" =>
        fin = "unopened" /\ fout = "unopened" /\ out = OldContent

\* C3: when process_file has returned or has propagated an error, no stream
\* is open.
StreamsClosedAtExit ==
    pc \in {"after_with", "returned", "raised"} => fin # "open" /\ fout # "open"

StreamsClosedWitness ==
    pc = "raised" /\ err = "open_out" /\ fin = "closed" /\ fout = "unopened"

\* C4: under line and sentence granularity the k-th call of the engine gets
\* the k-th unit of the input with index {split: k}, and the output holds
\* the results in that order.
UnitsInOrder ==
    split \in {"line", "sentence"} =>
        /\ Len(calls) <= Len(Units(doc, split))
        /\ \A k \in 1..Len(calls) :
               /\ calls[k].text = Units(doc, split)[k]
               /\ calls[k].index = <<<<split, k>>>>
        /\ (fout # "unopened" /\ err # "write") => out = ExpectedOut(writes)
        /\ (mode = "extract" /\ fout # "unopened") =>
               \A i, j \in 1..Len(out) :
                   i < j => out[i].record[4][2] <= out[j].record[4][2]
        /\ (pc = "returned" /\ split = "line") =>
               IsLineSplit([k \in 1..Len(calls) |-> calls[k].text], doc)

UnitsInOrderWitness ==
    /\ split = "sentence" /\ mode = "extract" /\ engine = "echo"
    /\ pc = "returned" /\ Len(calls) = 2 /\ Len(out) = 2
    /\ out[2].record[4] = <<"sentence", 2>>

\* C5: in mode "extract", with an engine that reports one Finding per unit,
\* the output holds one Record per unit, in unit order, with the Finding's
\* name, value and pos and the unit's index key; a block's Record has none.
ExtractionComplete ==
    (mode = "extract" /\ engine = "echo" /\ pc = "returned") =>
        /\ Len(out) = Len(Units(doc, split))
        /\ \A k \in 1..Len(out) :
               out[k].record =
                   <<<<"name", "UNIT">>, <<"value", Units(doc, split)[k]>>, <<"pos", 0>>>>
                   \o (IF split = "block" THEN <<>> ELSE <<<<split, k>>>>)

ExtractionCompleteWitness ==
    /\ mode = "extract" /\ engine = "echo" /\ pc = "returned"
    /\ split = "line" /\ Len(out) = 2
    /\ out[2].record[4] = <<"line", 2>>

\* C6: a one-line, one-sentence document, in replace mode with the identity
\* engine, is written back as it is under every granularity.
GranularityEquivalence ==
    (/\ mode = "replace" /\ engine = "echo" /\ pc = "returned"
     /\ OneLine(doc) /\ OneSentence(doc)) => OutText = doc

GranularityEquivalenceWitness ==
    /\ mode = "replace" /\ engine = "echo" /\ pc = "returned"
    /\ OneLine(doc) /\ OneSentence(doc)
    /\ split = "sentence" /\ FindSep(doc, 1) > 1 /\ doc[Len(doc)] = "\n"
    /\ OutText = doc

\* C7: a document without a separator yields exactly one unit, the document
\* (the empty document too).
NoSeparatorOneUnit ==
    (pc = "split_done" /\ NoSeparator(doc)) => yielded = <<doc>>

\* C7, amended: a document without a separator yields exactly one unit, the
\* document, unless it is empty: the empty document yields no unit.
NoSeparatorOneUnitUnlessEmpty ==
    (pc = "split_done" /\ NoSeparator(doc)) =>
        yielded = IF doc = <<>> THEN <<>> ELSE <<doc>>

NoSeparatorWitness ==
    /\ pc = "split_done" /\ NoSeparator(doc)
    /\ \E i \in 1..Len(doc) : IsPunct(doc[i])
    /\ \E i \in 1..Len(doc) : IsSpace(doc[i])
    /\ yielded = <<doc>>

OneUnitAtATime ==
    split \in ValidSplits =>
        /\ writes <= Len(calls) /\ Len(calls) <= writes + 1
        /\ pc = "engine" => writes = Len(calls)
        /\ pc = "write" => Len(calls) = writes + 1
        /\ Len(calls) <= Len(Units(doc, split))
        /\ \A k \in 1..Len(calls) : calls[k].text = Units(doc, split)[k]
        /\ pc = "returned" => Len(calls) = Len(Units(doc, split)) /\ writes = Len(calls)
        /\ (pc = "returned" /\ split = "block") =>
               calls = <<[text |-> doc, index |-> <<>>, raised |-> FALSE]>>

OneUnitAtATimeWitness ==
    /\ split = "block" /\ doc = <<>> /\ pc = "returned"
    /\ Len(calls) = 1 /\ writes = 1

\* C10: when the engine or the write fails on unit k, process_file stops:
\* the output of the units before k stays, no later unit reaches the engine,
\* the failed operation is not done again and no statistics are returned.
NoRecoveryNoRetry ==
    err \in {"engine", "write"} =>
        /\ pc \in {"unwind", "raised"}
        /\ ret = <<>>
        /\ calls # <<>>
        /\ \A k \in 1..(Len(calls) - 1) : ~calls[k].raised
        /\ \A k \in 1..Len(calls) :
               calls[k].text = Units(doc, split)[k] /\ calls[k].index = UnitIndex(split, k)
        /\ err = "engine" =>
               /\ calls[Len(calls)].raised
               /\ writes = Len(calls) - 1
               /\ out = ExpectedOut(Len(calls) - 1)
        /\ err = "write" =>
               /\ writes = Len(calls)
               /\ IsPrefix(ExpectedOut(Len(calls) - 1), out)
               /\ IsPrefix(out, ExpectedOut(Len(calls)))
               /\ Len(out) < Len(ExpectedOut(Len(calls)))

NoRecoveryWitness ==
    /\ pc = "raised" /\ err = "engine" /\ split = "line"
    /\ Len(calls) = 2 /\ Len(out) = 1 /\ ret = <<>>
    /\ Len(Units(doc, split)) > 2

====
